---- MODULE Spec2Model ----
(***************************************************************************)
(* bot-forge: the in-browser vectorization / similarity-search engine and  *)
(* the dataset profiler of frontend/src/components/DatasetCard.tsx, with   *)
(* the two React components that drive them (ChatInterface and             *)
(* AnalysisDashboard).                                                     *)
(*                                                                         *)
(* A text is a sequence of characters, a character a one-element string.   *)
(* A token is a text; a vocabulary a sequence of tokens; a vector a        *)
(* sequence of naturals.  A JavaScript number that is the result of        *)
(* Math.sqrt, * or / is an IEEE-754 binary64 value, kept as                *)
(* <<mantissa, exponent>> with a 53-bit mantissa (see the Number section). *)
(***************************************************************************)
EXTENDS Integers, Sequences, FiniteSets, TLC

VARIABLES
    call,           \* the last call of an exported / inner pure function: its name, arguments, result
    dataset,        \* ChatInterface: the dataset prop (its dataRows)
    vocabulary,     \* ChatInterface: useState<string[]>
    vectors,        \* ChatInterface: useState<number[][]>
    vectorized,     \* ChatInterface: useState(false)
    vectorField,    \* ChatInterface: useState<string | null>
    loadingDataset, \* ChatInterface: useState<string | null>, the key of the load under way
    responseData,   \* ChatInterface: response.data of the last answered POST /query
    messages,       \* ChatInterface: useState<ChatMessage[]>
    inputValue,     \* ChatInterface: useState('')
    isTyping,       \* ChatInterface: useState(false)
    pending,        \* ChatInterface: the handleSendMessage calls suspended at their await
    effectDone,     \* ChatInterface: the vectorization effect has run for the current dataset
    crashed,        \* ChatInterface: an effect threw, React unmounted the tree
    aDataset,       \* AnalysisDashboard: the dataset prop (its dataRows)
    analysisData,   \* AnalysisDashboard: useState<AnalysisData | null>
    loading,        \* AnalysisDashboard: useState(true)
    error,          \* AnalysisDashboard: useState<string | null>
    aPc,            \* AnalysisDashboard: where fetchAnalysisData stands
    datasets,       \* App: useState<Dataset[]>(staticDatasets)
    selectedDataset,\* App: useState<Dataset | null>(null)
    viewMode,       \* App: useState<ViewMode>
    appLoading,     \* App: loading, true while GET /datasets is under way
    appError,       \* App: error
    reading,        \* DatasetGrid: the files its FileReaders are reading
    alerts,         \* DatasetGrid: the number of alert() calls so far
    loadMsg,        \* VectorSearchDemo: useState('')
    demoRuns,       \* VectorSearchDemo: the handleLoadDataset calls and where each stands
    requests        \* VectorSearchDemo: the requests issued so far and their outcomes

engineVars == <<call>>
chatVars == <<dataset, vocabulary, vectors, vectorized, vectorField, messages,
              inputValue, isTyping, pending, effectDone, crashed, loadingDataset, responseData>>
analysisVars == <<aDataset, analysisData, loading, error, aPc>>
appVars == <<datasets, selectedDataset, viewMode, appLoading, appError, reading, alerts>>
demoVars == <<loadMsg, demoRuns, requests>>
vars == <<engineVars, chatVars, analysisVars, appVars, demoVars>>

---------------------------------------------------------------------------
(* Bounds of the model *)

MaxTextLen == 3     \* characters of a text handed to vectorize
MaxDocLen == 2      \* characters of a text of a corpus handed to buildVocabulary
MaxDocs == 2        \* texts of a corpus; vectors handed to vectorSearch
MaxCount == 2       \* largest term count in a vector handed to cosineSimilarity / vectorSearch
MaxDim == 3         \* longest vector handed to cosineSimilarity
MaxQueryLen == 1    \* characters of a query handed to vectorSearch

---------------------------------------------------------------------------
(* Characters and strings *)

\* "U+212A" is the KELVIN SIGN: not matched by \w, lower-cased to the ASCII letter k.
Alphabet == {"a", "A", " ", "U+212A"}

\* /\w/ is [A-Za-z0-9_]
IsWordChar(c) == c \in {"a", "A", "k"}

\* String.prototype.toLowerCase, one code point
LowerChar(c) ==
    CASE c = "A" -> "a"
      [] c = "U+212A" -> "k"
      [] OTHER -> c

ToLowerCase(s) == [i \in 1..Len(s) |-> LowerChar(s[i])]

\* String.prototype.split(/\W+/): the pieces between the maximal runs of
\* non-word characters; a run at either end leaves an empty piece there.
RECURSIVE SplitFrom(_, _, _, _)
SplitFrom(s, i, cur, inRun) ==
    IF i > Len(s) THEN <<cur>>
    ELSE IF IsWordChar(s[i]) THEN SplitFrom(s, i + 1, Append(cur, s[i]), FALSE)
    ELSE IF inRun THEN SplitFrom(s, i + 1, cur, TRUE)
    ELSE <<cur>> \o SplitFrom(s, i + 1, <<>>, TRUE)

SplitNonWord(s) == SplitFrom(s, 1, <<>>, FALSE)

Range(f) == {f[i] : i \in DOMAIN f}

\* Set.prototype.add on a Set kept in insertion order
SetAdd(set, x) == IF x \in Range(set) THEN set ELSE Append(set, x)

RECURSIVE SeqsUpTo(_, _)
SeqsUpTo(S, n) ==
    IF n = 0 THEN {<<>>}
    ELSE LET shorter == SeqsUpTo(S, n - 1)
         IN  shorter \cup {Append(s, x) : s \in {t \in shorter : Len(t) = n - 1}, x \in S}

---------------------------------------------------------------------------
(* The exported engine: vectorize, buildVocabulary *)

\* tokens.filter(t => t === word).length
CountOf(tokens, word) == Cardinality({j \in 1..Len(tokens) : tokens[j] = word})

\* Variants of vectorize: tokens.map in place of vocabulary.map, and a term's
\* presence in place of its count.
vectorize_per_token(text, vocab) ==
    LET tokens == SplitNonWord(ToLowerCase(text))
    IN  [i \in 1..Len(tokens) |-> CountOf(tokens, tokens[i])]

vectorize_presence(text, vocab) ==
    LET tokens == SplitNonWord(ToLowerCase(text))
    IN  [i \in 1..Len(vocab) |-> IF CountOf(tokens, vocab[i]) > 0 THEN 1 ELSE 0]

vectorize(text, vocab) ==
    LET tokens == SplitNonWord(ToLowerCase(text))
    IN  [i \in 1..Len(vocab) |-> CountOf(tokens, vocab[i])]

\* tokens.forEach(token => { if (token) vocabSet.add(token) })
RECURSIVE AddTokens(_, _, _)
AddTokens(set, tokens, i) ==
    IF i > Len(tokens) THEN set
    ELSE AddTokens(IF tokens[i] # <<>> THEN SetAdd(set, tokens[i]) ELSE set, tokens, i + 1)

RECURSIVE BuildFrom(_, _, _)
BuildFrom(set, texts, i) ==
    IF i > Len(texts) THEN set
    ELSE BuildFrom(AddTokens(set, SplitNonWord(ToLowerCase(texts[i])), 1), texts, i + 1)

buildVocabulary(texts) == BuildFrom(<<>>, texts, 1)

---------------------------------------------------------------------------
(* ChatInterface's own copies *)

\* text.split(/\W+/).forEach(word => { if (word) vocabSet.add(word.toLowerCase()) })
RECURSIVE ChatAddWords(_, _, _)
ChatAddWords(set, words, i) ==
    IF i > Len(words) THEN set
    ELSE ChatAddWords(IF words[i] # <<>> THEN SetAdd(set, ToLowerCase(words[i])) ELSE set,
                      words, i + 1)

RECURSIVE ChatBuildFrom(_, _, _)
ChatBuildFrom(set, texts, i) ==
    IF i > Len(texts) THEN set
    ELSE ChatBuildFrom(ChatAddWords(set, SplitNonWord(texts[i]), 1), texts, i + 1)

ChatBuildVocabulary(texts) == ChatBuildFrom(<<>>, texts, 1)

ChatVectorize(text, vocab) ==
    LET words == SplitNonWord(ToLowerCase(text))
    IN  [i \in 1..Len(vocab) |-> CountOf(words, vocab[i])]

---------------------------------------------------------------------------
(* Number: IEEE-754 binary64, round to nearest, ties to even.              *)
(* A non-negative double is <<m, e>>, the value m * 2^e, with m a 53-bit   *)
(* natural (2^52 <= m < 2^53) kept as little-endian limbs to base 2^14;    *)
(* zero is <<<<>>, 0>>.  The sums of products of term counts that          *)
(* cosineSimilarity forms are integers far below 2^53, hence exact, and    *)
(* are kept as integers.  No value here is subnormal, infinite or NaN.     *)

LimbBits == 14
MantBits == 53
ChunkLen == 8       \* recursion is cut into chunks of this many steps

RECURSIVE Pow2(_)
Pow2(k) == IF k = 0 THEN 1 ELSE 2 * Pow2(k - 1)

Base == Pow2(LimbBits)

RECURSIVE IntBitLen(_)
IntBitLen(n) == IF n = 0 THEN 0 ELSE 1 + IntBitLen(n \div 2)

Limb(x, i) == IF i <= Len(x) THEN x[i] ELSE 0

RECURSIVE BTrim(_)
BTrim(x) == IF x # <<>> /\ x[Len(x)] = 0 THEN BTrim(SubSeq(x, 1, Len(x) - 1)) ELSE x

RECURSIVE BFromInt(_)
BFromInt(n) == IF n = 0 THEN <<>> ELSE <<n % Base>> \o BFromInt(n \div Base)

RECURSIVE BAddFrom(_, _, _, _)
BAddFrom(x, y, i, c) ==
    IF i > Len(x) /\ i > Len(y)
    THEN (IF c = 0 THEN <<>> ELSE <<c>>)
    ELSE LET s == Limb(x, i) + Limb(y, i) + c
         IN  <<s % Base>> \o BAddFrom(x, y, i + 1, s \div Base)

BAdd(x, y) == BAddFrom(x, y, 1, 0)

\* x - y for x >= y
RECURSIVE BSubFrom(_, _, _, _)
BSubFrom(x, y, i, b) ==
    IF i > Len(x) THEN <<>>
    ELSE LET d == x[i] - Limb(y, i) - b
         IN  IF d < 0 THEN <<d + Base>> \o BSubFrom(x, y, i + 1, 1)
             ELSE <<d>> \o BSubFrom(x, y, i + 1, 0)

BSub(x, y) == BTrim(BSubFrom(x, y, 1, 0))

RECURSIVE BCmpFrom(_, _, _)
BCmpFrom(x, y, i) ==
    IF i = 0 THEN 0
    ELSE IF x[i] < y[i] THEN -1
    ELSE IF x[i] > y[i] THEN 1
    ELSE BCmpFrom(x, y, i - 1)

\* -1, 0, 1 as x < y, x = y, x > y
BCmp(x, y) ==
    IF Len(x) < Len(y) THEN -1
    ELSE IF Len(x) > Len(y) THEN 1
    ELSE BCmpFrom(x, y, Len(x))

RECURSIVE BMulSmallFrom(_, _, _, _)
BMulSmallFrom(x, k, i, c) ==
    IF i > Len(x) THEN (IF c = 0 THEN <<>> ELSE <<c>>)
    ELSE LET p == x[i] * k + c
         IN  <<p % Base>> \o BMulSmallFrom(x, k, i + 1, p \div Base)

\* x * k for 0 <= k < Base
BMulSmall(x, k) == IF k = 0 THEN <<>> ELSE BMulSmallFrom(x, k, 1, 0)

RECURSIVE BMulFrom(_, _, _)
BMulFrom(x, y, j) ==
    IF j > Len(y) THEN <<>>
    ELSE LET rest == BMulFrom(x, y, j + 1)
         IN  BAdd(BMulSmall(x, y[j]), IF rest = <<>> THEN <<>> ELSE <<0>> \o rest)

BMul(x, y) == BMulFrom(x, y, 1)

BBitLen(x) == IF x = <<>> THEN 0 ELSE LimbBits * (Len(x) - 1) + IntBitLen(x[Len(x)])

BIsOdd(x) == x # <<>> /\ x[1] % 2 = 1

\* x * 2^k
BShl(x, k) ==
    IF x = <<>> THEN <<>>
    ELSE [i \in 1..(k \div LimbBits) |-> 0] \o BMulSmall(x, Pow2(k % LimbBits))

\* floor(x / 2^k)
BShr(x, k) ==
    LET a == k \div LimbBits
        b == k % LimbBits
    IN  IF a >= Len(x) THEN <<>>
        ELSE BTrim([i \in 1..(Len(x) - a) |->
                 (x[i + a] \div Pow2(b)) + (Limb(x, i + a + 1) % Pow2(b)) * Pow2(LimbBits - b)])

\* x mod 2^k # 0
BLowNonZero(x, k) ==
    \/ \E i \in 1..Len(x) : i <= k \div LimbBits /\ x[i] # 0
    \/ Limb(x, (k \div LimbBits) + 1) % Pow2(k % LimbBits) # 0

FZero == <<<<>>, 0>>
FOne == <<BShl(<<1>>, MantBits - 1), 0 - (MantBits - 1)>>

\* The double nearest to q * 2^e (ties to even), for q of more than 53 bits;
\* sticky says that the exact value is a little larger than q * 2^e.
RoundNearestEven(q, sticky, e) ==
    LET k == BBitLen(q) - MantBits
        m == BShr(q, k)
        half == BShr(q, k - 1) # BMulSmall(m, 2)
        rest == sticky \/ BLowNonZero(q, k - 1)
        up == half /\ (rest \/ BIsOdd(m))
        m1 == IF up THEN BAdd(m, <<1>>) ELSE m
    IN  IF BBitLen(m1) > MantBits THEN <<BShr(m1, 1), e + k + 1>> ELSE <<m1, e + k>>

\* Digit-by-digit square root of n * 4^j: one bit of the root per step, until
\* the root has 54 bits; pairsLeft counts the bit pairs of n not yet taken.
RECURSIVE SqrtChunk(_, _, _, _, _)
SqrtChunk(n, pairsLeft, rem, root, todo) ==
    IF todo = 0 \/ BBitLen(root) = MantBits + 1 THEN <<pairsLeft, rem, root>>
    ELSE LET pair == IF pairsLeft > 0 THEN (n \div Pow2(2 * (pairsLeft - 1))) % 4 ELSE 0
             r4 == BAdd(BMulSmall(rem, 4), BFromInt(pair))
             trial == BAdd(BMulSmall(root, 4), <<1>>)
         IN  IF BCmp(r4, trial) >= 0
             THEN SqrtChunk(n, pairsLeft - 1, BSub(r4, trial),
                            BAdd(BMulSmall(root, 2), <<1>>), todo - 1)
             ELSE SqrtChunk(n, pairsLeft - 1, r4, BMulSmall(root, 2), todo - 1)

RECURSIVE SqrtRun(_, _, _, _)
SqrtRun(n, pairsLeft, rem, root) ==
    LET st == SqrtChunk(n, pairsLeft, rem, root, ChunkLen)
    IN  IF BBitLen(st[3]) = MantBits + 1 THEN st ELSE SqrtRun(n, st[1], st[2], st[3])

\* Math.sqrt of an integer 0 <= n < 2^31, correctly rounded
SqrtOfInt(n) ==
    IF n = 0 THEN FZero
    ELSE LET np == (IntBitLen(n) + 1) \div 2
             st == SqrtRun(n, np, <<>>, <<>>)
         IN  RoundNearestEven(st[3], st[2] # <<>>, np - (MantBits + 1))

\* x * y
FMul(x, y) ==
    IF x = FZero \/ y = FZero THEN FZero
    ELSE RoundNearestEven(BMul(x[1], y[1]), FALSE, x[2] + y[2])

\* The largest digit t <= qhat with t * d <= r
RECURSIVE FixDigit(_, _, _)
FixDigit(d, r, qhat) ==
    IF BCmp(BMulSmall(d, qhat), r) <= 0 THEN qhat ELSE FixDigit(d, r, qhat - 1)

\* Long division of num by d, limb by limb from the top limb i down: <<quotient,
\* remainder>>.  d is normalised (its top limb is at least Base / 2), so the
\* estimate of a digit from the top limbs is at most 2 too large.
RECURSIVE LongDiv(_, _, _, _, _)
LongDiv(num, d, i, r, q) ==
    IF i = 0 THEN <<q, r>>
    ELSE LET r1 == BTrim(<<num[i]>> \o r)
             est == (Limb(r1, Len(d) + 1) * Base + Limb(r1, Len(d))) \div d[Len(d)]
             digit == FixDigit(d, r1, IF est >= Base THEN Base - 1 ELSE est)
         IN  LongDiv(num, d, i - 1, BSub(r1, BMulSmall(d, digit)), BTrim(<<digit>> \o q))

\* n / y for an integer 0 <= n < 2^31 and a double y > 0: the quotient of
\* n * 2^DivShift by the mantissa of y has more than 53 bits.
DivShift == 2 * (MantBits + 3)

FDivInt(n, y) ==
    IF n = 0 THEN FZero
    ELSE LET norm == LimbBits * Len(y[1]) - BBitLen(y[1])
             d == BShl(y[1], norm)
             num == BShl(BFromInt(n), DivShift + norm)
             qr == LongDiv(num, d, Len(num), <<>>, <<>>)
         IN  RoundNearestEven(qr[1], qr[2] # <<>>, 0 - DivShift - y[2])

\* x < y, x = y, x > y as -1, 0, 1 (the sign of x - y)
FCmp(x, y) ==
    IF x = y THEN 0
    ELSE IF x = FZero THEN -1
    ELSE IF y = FZero THEN 1
    ELSE IF x[2] # y[2] THEN (IF x[2] < y[2] THEN -1 ELSE 1)
    ELSE BCmp(x[1], y[1])

\* the double of an integer 0 <= n < 2^31
FFromInt(n) ==
    IF n = 0 THEN FZero
    ELSE <<BShl(BFromInt(n), MantBits - IntBitLen(n)), IntBitLen(n) - MantBits>>

\* the literals 0.8 and 0.5: the doubles nearest to 4/5 and 1/2
Point8 == FDivInt(4, FFromInt(5))
Point5 == FDivInt(1, FFromInt(2))

---------------------------------------------------------------------------
(* The exported engine: cosineSimilarity, vectorSearch *)

\* Math.sqrt on the sums of squares the model can form, computed once
MaxNormSq == MaxDim * MaxCount * MaxCount
SqrtTable == [n \in 0..MaxNormSq |-> SqrtOfInt(n)] @@ <<>>

MathSqrt(n) == IF n <= MaxNormSq THEN SqrtTable[n] ELSE SqrtOfInt(n)

\* a.reduce((sum, ai, i) => sum + ai * b[i], 0); a and b have the same length
RECURSIVE DotFrom(_, _, _)
DotFrom(a, b, i) == IF i > Len(a) THEN 0 ELSE a[i] * b[i] + DotFrom(a, b, i + 1)

Dot(a, b) == DotFrom(a, b, 1)

\* A variant of cosineSimilarity that scores 1 where a norm is zero.
cosineSimilarity_unguarded(a, b) ==
    LET dot == Dot(a, b)
        normA == MathSqrt(Dot(a, a))
        normB == MathSqrt(Dot(b, b))
    IN  IF normA # FZero /\ normB # FZero THEN FDivInt(dot, FMul(normA, normB)) ELSE FOne

cosineSimilarity(a, b) ==
    LET dot == Dot(a, b)
        normA == MathSqrt(Dot(a, a))
        normB == MathSqrt(Dot(b, b))
    IN  IF normA # FZero /\ normB # FZero THEN FDivInt(dot, FMul(normA, normB)) ELSE FZero

\* A variant of the sort that puts an element before its equals (not stable).
RECURSIVE InsertByScore_ties_first(_, _, _)
InsertByScore_ties_first(sorted, x, i) ==
    IF i > Len(sorted) THEN Append(sorted, x)
    ELSE IF FCmp(x.score, sorted[i].score) >= 0
         THEN SubSeq(sorted, 1, i - 1) \o <<x>> \o SubSeq(sorted, i, Len(sorted))
         ELSE InsertByScore_ties_first(sorted, x, i + 1)

\* Array.prototype.sort((a, b) => b.score - a.score): stable (ECMAScript 2019),
\* so an element goes behind every element that does not compare greater.
RECURSIVE InsertByScore(_, _, _)
InsertByScore(sorted, x, i) ==
    IF i > Len(sorted) THEN Append(sorted, x)
    ELSE IF FCmp(x.score, sorted[i].score) > 0
         THEN SubSeq(sorted, 1, i - 1) \o <<x>> \o SubSeq(sorted, i, Len(sorted))
         ELSE InsertByScore(sorted, x, i + 1)

RECURSIVE SortFrom(_, _, _)
SortFrom(sorted, s, i) ==
    IF i > Len(s) THEN sorted ELSE SortFrom(InsertByScore(sorted, s[i], 1), s, i + 1)

SortByScoreDesc(s) == SortFrom(<<>>, s, 1)

\* A variant of slice that keeps every element.
SliceTo_all(s, end) == s

\* Array.prototype.slice(0, end)
SliceTo(s, end) ==
    LET final == IF end < 0
                 THEN (IF Len(s) + end < 0 THEN 0 ELSE Len(s) + end)
                 ELSE (IF end > Len(s) THEN Len(s) ELSE end)
    IN  SubSeq(s, 1, final)

\* An optional argument: <<>> when the caller leaves it out, <<n>> when given
NotGiven == <<>>
Given(n) == <<n>>

DefaultTopN == 3

\* export function vectorSearch(query, dataRows, vectors, vocabulary, topN = 3)
vectorSearch(query, dataRows, vecs, vocab, topN) ==
    LET n == IF topN = NotGiven THEN DefaultTopN ELSE topN[1]
        queryVec == vectorize(query, vocab)
        scored == [i \in 1..Len(vecs) |->
                     [row |-> dataRows[i], score |-> cosineSimilarity(queryVec, vecs[i])]]
    IN  SliceTo(SortByScoreDesc(scored), n)

---------------------------------------------------------------------------
(* Datasets: dataRows is a list of rows; a row is null or an object, kept   *)
(* as the sequence of its <<key, value>> entries in Object.keys order.      *)

Null == [t |-> "null", s |-> <<>>, n |-> 0]
Undefined == [t |-> "undefined", s |-> <<>>, n |-> 0]
Num(n) == [t |-> "number", s |-> <<>>, n |-> n]
Str(s) == [t |-> "string", s |-> s, n |-> 0]

NullRow == [isNull |-> TRUE, entries |-> <<>>]
ObjectRow(entries) == [isNull |-> FALSE, entries |-> entries]

\* dataset.dataRows is optional
NoRows == [defined |-> FALSE, rows |-> <<>>]
DataRows(rows) == [defined |-> TRUE, rows |-> rows]

\* Object.keys(row)
Keys(row) == [i \in 1..Len(row.entries) |-> row.entries[i][1]]

\* row[key]
Get(row, key) ==
    IF \E i \in 1..Len(row.entries) : row.entries[i][1] = key
    THEN row.entries[CHOOSE i \in 1..Len(row.entries) : row.entries[i][1] = key][2]
    ELSE Undefined

FieldNames == {"id", "text"}
MaxFields == 2      \* fields of a row
MaxRows == 2        \* rows of a dataset

\* the objects of at most MaxFields fields with distinct keys and values in V
ObjectRows(V) ==
    {ObjectRow(e) : e \in {f \in SeqsUpTo(FieldNames \X V, MaxFields) :
                              \A i, j \in 1..Len(f) : f[i][1] = f[j][1] => i = j}}

DatasetsOver(V) == {NoRows} \cup {DataRows(r) : r \in SeqsUpTo({NullRow} \cup ObjectRows(V), MaxRows)}

---------------------------------------------------------------------------
(* ChatInterface *)

ChatValues == {Null, Num(1), Str(<<"a">>), Str(<<"A", " ", "k">>)}
ChatDatasets == DatasetsOver(ChatValues)

\* what the user can have in the input box
InputValues == {<<>>, <<" ">>, <<"a">>}
MaxMessages == 4

\* String.prototype.trim
RECURSIVE TrimStart(_)
TrimStart(s) == IF s # <<>> /\ s[1] = " " THEN TrimStart(Tail(s)) ELSE s

RECURSIVE TrimEnd(_)
TrimEnd(s) == IF s # <<>> /\ s[Len(s)] = " " THEN TrimEnd(SubSeq(s, 1, Len(s) - 1)) ELSE s

Trim(s) == TrimEnd(TrimStart(s))

Greeting == [content |-> <<"greeting">>, isUser |-> FALSE, sources |-> <<"dataset.source">>]
ErrorContent == <<"Error connecting to backend. Please try again or make sure the dataset is loaded.">>
NoResultsContent == <<"No relevant results found.">>

NotLoading == "null"        \* loadingDataset === null
LoadKeys == {"olympics", "gdelt", "unsdg", "custom"}

\* no POST /query has been answered
NoResponse == [kind |-> "none", ai_response |-> <<>>, vector_results |-> FALSE, results |-> <<>>]

ChatInit ==
    /\ dataset \in ChatDatasets
    /\ vocabulary = <<>>
    /\ vectors = <<>>
    /\ vectorized = FALSE
    /\ vectorField = Null
    /\ messages = <<Greeting>>
    /\ inputValue = <<>>
    /\ isTyping = FALSE
    /\ pending = <<>>
    /\ effectDone = FALSE
    /\ crashed = FALSE
    /\ loadingDataset = NotLoading
    /\ responseData = NoResponse

\* Object.keys(sample).find(k => typeof sample[k] === 'string')
StringKeys(sample) == {i \in 1..Len(sample.entries) : sample.entries[i][2].t = "string"}

\* A variant of find that takes the last string-valued key.
TextField_last(sample) ==
    Keys(sample)[CHOOSE i \in StringKeys(sample) : \A j \in StringKeys(sample) : i >= j]

\* the key find returns when there is one: the first whose value is a string
TextField(sample) ==
    Keys(sample)[CHOOSE i \in StringKeys(sample) : \A j \in StringKeys(sample) : i <= j]

\* the vectorization effect throws: Object.keys(null), null[textField], or
\* text.split on a value that is not a string
EffectThrows(rows) ==
    \/ rows[1].isNull
    \/ /\ StringKeys(rows[1]) # {}
       /\ \E i \in 1..Len(rows) :
              rows[i].isNull \/ Get(rows[i], TextField(rows[1])).t # "string"

\* useEffect(() => {...}, [dataset, vectorized]): the effect is due again
\* when it has changed vectorized, one of its dependencies
VectorizeEffect ==
    /\ ~crashed /\ ~effectDone
    /\ IF dataset.defined /\ Len(dataset.rows) > 0 /\ ~vectorized
       THEN IF EffectThrows(dataset.rows)
            THEN /\ crashed' = TRUE
                 /\ UNCHANGED <<vocabulary, vectors, vectorized, vectorField>>
            ELSE IF StringKeys(dataset.rows[1]) = {}
            THEN UNCHANGED <<vocabulary, vectors, vectorized, vectorField, crashed>>
            ELSE LET sample == dataset.rows[1]
                     textField == TextField(sample)
                     texts == [i \in 1..Len(dataset.rows) |-> Get(dataset.rows[i], textField).s]
                     vocab == ChatBuildVocabulary(texts)
                 IN  /\ vectorField' = Str(<<textField>>)
                     /\ vocabulary' = vocab
                     /\ vectors' = [i \in 1..Len(texts) |-> ChatVectorize(texts[i], vocab)]
                     /\ vectorized' = TRUE
                     /\ UNCHANGED crashed
       ELSE UNCHANGED <<vocabulary, vectors, vectorized, vectorField, crashed>>
    /\ effectDone' = (vectorized' = vectorized)
    /\ UNCHANGED <<dataset, messages, inputValue, isTyping, pending, loadingDataset, responseData>>
    /\ UNCHANGED <<engineVars, analysisVars, appVars, demoVars>>

\* response.data of POST /query
ResultTexts == <<"r1", "r2", "r3", "r4">>    \* the text fields of an array response
Responses ==
    {[kind |-> "ai", ai_response |-> a, vector_results |-> v, results |-> <<>>] :
        a \in {<<"answer">>, <<>>}, v \in BOOLEAN}
    \cup {[kind |-> "array", ai_response |-> <<>>, vector_results |-> FALSE,
           results |-> SubSeq(ResultTexts, 1, k)] : k \in 0..Len(ResultTexts)}
    \cup {[kind |-> k, ai_response |-> <<>>, vector_results |-> FALSE, results |-> <<>>] :
            k \in {"object", "null"}}

\* onChange of the input box (disabled while isTyping)
SetInputValue ==
    /\ ~crashed /\ effectDone /\ ~isTyping
    /\ \E v \in InputValues : v # inputValue /\ inputValue' = v
    /\ UNCHANGED <<dataset, vocabulary, vectors, vectorized, vectorField, messages,
                   isTyping, pending, effectDone, crashed, loadingDataset, responseData>>
    /\ UNCHANGED <<engineVars, analysisVars, appVars, demoVars>>

\* handleSendMessage up to its await: the send button and the input are
\* disabled while isTyping, and a blank input returns at once
SendMessage ==
    /\ ~crashed /\ effectDone /\ ~isTyping
    /\ Trim(inputValue) # <<>>
    /\ Len(messages) + 2 <= MaxMessages
    /\ messages' = Append(messages, [content |-> inputValue, isUser |-> TRUE, sources |-> <<>>])
    /\ inputValue' = <<>>
    /\ isTyping' = TRUE
    /\ pending' = Append(pending, [query |-> inputValue])
    /\ UNCHANGED <<dataset, vocabulary, vectors, vectorized, vectorField, effectDone, crashed,
                   loadingDataset, responseData>>
    /\ UNCHANGED <<engineVars, analysisVars, appVars, demoVars>>

\* results.map(r => r.text).slice(0, 3), joined after 'Top results:'
TopResultsContent(results) ==
    IF results = <<>> THEN NoResultsContent
    ELSE <<"Top results:">> \o SliceTo(results, 3)

AssistantMessage(content, sources) == [content |-> content, isUser |-> FALSE, sources |-> sources]

\* the message handleSendMessage appends for response.data = data: an
\* ai_response that is the empty string is falsy and the object is then read
\* in the old format; reading data.ai_response of a null body throws into the
\* catch block
ReplyTo(data) ==
    CASE data.kind = "ai" /\ data.ai_response # <<>> ->
           AssistantMessage(data.ai_response,
                            IF data.vector_results THEN <<"dataset.name">> ELSE <<>>)
      [] data.kind = "array" -> AssistantMessage(TopResultsContent(data.results), <<"dataset.name">>)
      [] data.kind \in {"ai", "object"} -> AssistantMessage(NoResultsContent, <<"dataset.name">>)
      [] OTHER -> AssistantMessage(ErrorContent, <<>>)

\* the await of axios.post resolves: the try block runs to its end
QueryResponse ==
    /\ ~crashed /\ pending # <<>>
    /\ \E data \in Responses :
           /\ responseData' = data
           /\ messages' = Append(messages, ReplyTo(data))
    /\ pending' = Tail(pending)
    /\ isTyping' = FALSE
    /\ UNCHANGED <<dataset, vocabulary, vectors, vectorized, vectorField, inputValue,
                   effectDone, crashed, loadingDataset>>
    /\ UNCHANGED <<engineVars, analysisVars, appVars, demoVars>>

\* A variant of the rejection that leaves isTyping set.
QueryFailure_keeps_typing ==
    /\ ~crashed /\ pending # <<>>
    /\ messages' = Append(messages, AssistantMessage(ErrorContent, <<>>))
    /\ pending' = Tail(pending)
    /\ UNCHANGED <<dataset, vocabulary, vectors, vectorized, vectorField, inputValue, isTyping,
                   effectDone, crashed, loadingDataset, responseData>>
    /\ UNCHANGED <<engineVars, analysisVars, appVars, demoVars>>

\* the await of axios.post rejects (timeout, network error, non-2xx): the catch block
QueryFailure ==
    /\ ~crashed /\ pending # <<>>
    /\ messages' = Append(messages, AssistantMessage(ErrorContent, <<>>))
    /\ pending' = Tail(pending)
    /\ isTyping' = FALSE
    /\ UNCHANGED <<dataset, vocabulary, vectors, vectorized, vectorField, inputValue,
                   effectDone, crashed, loadingDataset, responseData>>
    /\ UNCHANGED <<engineVars, analysisVars, appVars, demoVars>>

\* the message a load ends with: response.data.message, or the default
\* text when it has none, or the error text when the request fails
LoadReplies(key) ==
    {AssistantMessage(<<"response.data.message">>, <<"Backend">>),
     AssistantMessage(IF key = "custom" THEN <<"Custom dataset loaded.">> ELSE <<"Dataset loaded.">>,
                      <<"Backend">>),
     AssistantMessage(IF key = "custom"
                      THEN <<"Error loading custom dataset. Please check backend and MongoDB.">>
                      ELSE <<"Error loading dataset. Please check backend and MongoDB.">>, <<>>)}

\* handleLoadDataset and handleFileChange up to the await: the load buttons
\* and the file input are disabled while isTyping
LoadDataset ==
    /\ ~crashed /\ effectDone /\ ~isTyping
    /\ Len(messages) + 1 <= MaxMessages
    /\ \E key \in LoadKeys : loadingDataset' = key
    /\ isTyping' = TRUE
    /\ UNCHANGED <<dataset, vocabulary, vectors, vectorized, vectorField, messages, inputValue,
                   pending, effectDone, crashed, responseData>>
    /\ UNCHANGED <<engineVars, analysisVars, appVars, demoVars>>

\* the await of the load settles
LoadSettled ==
    /\ ~crashed /\ loadingDataset # NotLoading
    /\ \E reply \in LoadReplies(loadingDataset) : messages' = Append(messages, reply)
    /\ isTyping' = FALSE
    /\ loadingDataset' = NotLoading
    /\ UNCHANGED <<dataset, vocabulary, vectors, vectorized, vectorField, inputValue,
                   pending, effectDone, crashed, responseData>>
    /\ UNCHANGED <<engineVars, analysisVars, appVars, demoVars>>

\* datasets the parent can hand over in place of the current one
ReplacementDatasets ==
    {NoRows,
     DataRows(<<ObjectRow(<<<<"id", Num(1)>>>>)>>),
     DataRows(<<ObjectRow(<<<<"text", Str(<<"A", " ", "k">>)>>>>)>>)}

\* the parent renders ChatInterface with another dataset: a dependency of
\* the vectorization effect has changed, the effect is due
DatasetChange ==
    /\ ~crashed
    /\ \E d \in ReplacementDatasets : d # dataset /\ dataset' = d
    /\ effectDone' = FALSE
    /\ UNCHANGED <<vocabulary, vectors, vectorized, vectorField, messages, inputValue,
                   isTyping, pending, crashed, loadingDataset, responseData>>
    /\ UNCHANGED <<engineVars, analysisVars, appVars, demoVars>>

ChatNext ==
    \/ VectorizeEffect
    \/ DatasetChange
    \/ SetInputValue
    \/ SendMessage
    \/ QueryResponse
    \/ QueryFailure
    \/ LoadDataset
    \/ LoadSettled

---------------------------------------------------------------------------
(* AnalysisDashboard: the local profiler analyzeFrontendData *)

Digits == <<"0", "1", "2", "3", "4", "5", "6", "7", "8", "9">>
IsDigit(c) == \E d \in 1..Len(Digits) : Digits[d] = c
DigitValue(c) == (CHOOSE d \in 1..Len(Digits) : Digits[d] = c) - 1

RECURSIVE DecimalValue(_)
DecimalValue(s) ==
    IF s = <<>> THEN 0 ELSE 10 * DecimalValue(SubSeq(s, 1, Len(s) - 1)) + DigitValue(s[Len(s)])

RECURSIVE DecimalText(_)
DecimalText(n) ==
    IF n < 10 THEN <<Digits[n + 1]>> ELSE Append(DecimalText(n \div 10), Digits[(n % 10) + 1])

NaN == [nan |-> TRUE, n |-> 0]
Number(n) == [nan |-> FALSE, n |-> n]

\* Number(v) for the values of the model: null is 0, undefined is NaN, a
\* string is trimmed and then 0 if empty, its value if a decimal numeral, else NaN
ToNumber(v) ==
    CASE v.t = "null" -> Number(0)
      [] v.t = "undefined" -> NaN
      [] v.t = "number" -> Number(v.n)
      [] OTHER -> LET str == Trim(v.s)
                  IN  IF str = <<>> THEN Number(0)
                      ELSE IF \A i \in 1..Len(str) : IsDigit(str[i]) THEN Number(DecimalValue(str))
                      ELSE NaN

\* String(v), the property key a value is turned into
KeyOf(v) ==
    CASE v.t = "null" -> <<"n", "u", "l", "l">>
      [] v.t = "undefined" -> <<"u", "n", "d", "e", "f", "i", "n", "e", "d">>
      [] v.t = "number" -> DecimalText(v.n)
      [] OTHER -> v.s

\* an integer-like key: Object.entries lists these first, in ascending order
IsArrayIndex(key) ==
    /\ key # <<>>
    /\ \A i \in 1..Len(key) : IsDigit(key[i])
    /\ Len(key) = 1 \/ key[1] # "0"

\* data.map(row => row[field])
Column(data, field) == [i \in 1..Len(data) |-> Get(data[i], field)]

\* A variant of the filter that keeps the empty string.
IsNonNull_not_null(v) == v.t \notin {"null", "undefined"}

\* values.filter(v => v != null && v !== '')
IsNonNull(v) == v.t \notin {"null", "undefined"} /\ v # Str(<<>>)

NonNullCount(values) == Cardinality({i \in 1..Len(values) : IsNonNull(values[i])})

\* nonNullValues.filter(v => !isNaN(Number(v))).length
NumberCount(values) ==
    Cardinality({i \in 1..Len(values) : IsNonNull(values[i]) /\ ~ToNumber(values[i]).nan})

\* numberValues.length > nonNullValues.length * 0.8
IsNumericField(values) ==
    FCmp(FFromInt(NumberCount(values)), FMul(FFromInt(NonNullCount(values)), Point8)) > 0

\* new Set(nonNullValues).size
UniqueNonNull(values) == Cardinality({values[i] : i \in {j \in 1..Len(values) : IsNonNull(values[j])}})

RECURSIVE SummaryFrom(_, _, _, _)
SummaryFrom(data, fields, i, summary) ==
    IF i > Len(fields) THEN summary
    ELSE LET values == Column(data, fields[i])
             numeric == IsNumericField(values)
         IN  SummaryFrom(data, fields, i + 1,
               [totalRecords |-> summary.totalRecords,
                uniqueValues |-> IF numeric THEN summary.uniqueValues
                                 ELSE summary.uniqueValues + UniqueNonNull(values),
                missingValues |-> summary.missingValues + Len(values) - NonNullCount(values),
                dataTypes |-> IF numeric
                              THEN Append(summary.dataTypes, <<fields[i], NumberCount(values)>>)
                              ELSE summary.dataTypes])

TrendLen == 10              \* data.slice(0, 10), Array.from({ length: 10 })
TopCategories == 8          \* sortedEntries.slice(0, 8)
PlaceholderLabels == <<<<"Category A">>, <<"Category B">>, <<"Category C">>>>
PlaceholderValues == <<Num(30), Num(45), Num(25)>>

\* fields.find(field => data.map(row => row[field]).some(v => !isNaN(Number(v))))
NumericFields(data, fields) ==
    {i \in 1..Len(fields) : \E r \in 1..Len(data) : ~ToNumber(Get(data[r], fields[i])).nan}

\* Number(row[numericField]) || 0
NumberOrZero(v) == IF ToNumber(v).nan THEN 0 ELSE ToNumber(v).n

\* random holds the results of the ten Math.random() * 100
TrendOf(data, fields, random) ==
    LET shown == SliceTo(data, TrendLen)
        found == NumericFields(data, fields)
        numericField == fields[CHOOSE i \in found : \A j \in found : i <= j]
    IN  [labels |-> [i \in 1..Len(shown) |-> <<"Data Point", i>>],
         values |-> IF found # {} /\ numericField # ""
                    THEN [i \in 1..Len(shown) |-> NumberOrZero(Get(shown[i], numericField))]
                    ELSE random]

\* uniqueValues.size < data.length * 0.5 && uniqueValues.size > 1
CategoricalFields(data, fields) ==
    {i \in 1..Len(fields) :
        LET size == Cardinality(Range(Column(data, fields[i])))
        IN  /\ FCmp(FFromInt(size), FMul(FFromInt(Len(data)), Point5)) < 0
            /\ size > 1}

\* the keys of counts in the order Object.entries lists them: integer-like
\* keys ascending, then the others in the order they were first assigned
RECURSIVE FirstSeen(_, _, _)
FirstSeen(keys, i, seen) ==
    IF i > Len(keys) THEN seen ELSE FirstSeen(keys, i + 1, SetAdd(seen, keys[i]))

RECURSIVE InsertAscending(_, _, _)
InsertAscending(sorted, key, i) ==
    IF i > Len(sorted) THEN Append(sorted, key)
    ELSE IF DecimalValue(key) < DecimalValue(sorted[i])
         THEN SubSeq(sorted, 1, i - 1) \o <<key>> \o SubSeq(sorted, i, Len(sorted))
         ELSE InsertAscending(sorted, key, i + 1)

RECURSIVE EntryKeysFrom(_, _, _, _)
EntryKeysFrom(seen, i, indices, others) ==
    IF i > Len(seen) THEN indices \o others
    ELSE IF IsArrayIndex(seen[i])
         THEN EntryKeysFrom(seen, i + 1, InsertAscending(indices, seen[i], 1), others)
         ELSE EntryKeysFrom(seen, i + 1, indices, Append(others, seen[i]))

\* the keys counts, created by {}, inherits from Object.prototype
\* (constructor, toString, valueOf, ...); the model has one of them
InheritedKeys == {<<"constructor">>}
ObjectFunctionText == "function Object() { [native code] }"

\* acc[value] after n rounds of acc[value] = (acc[value] || 0) + 1: the number
\* n, or for an inherited key the text of the inherited function, which is
\* truthy, followed by n times "1"
CountAfter(key, n) ==
    IF key \in InheritedKeys
    THEN Str(<<ObjectFunctionText>> \o [i \in 1..n |-> "1"])
    ELSE Num(n)

\* b - a > 0; with a count that is such a text the difference is NaN, which
\* sort takes as 0
Exceeds(b, a) == a.t = "number" /\ b.t = "number" /\ b.n > a.n

\* sortedEntries.sort(([, a], [, b]) => b - a), stable
RECURSIVE InsertByCount(_, _, _)
InsertByCount(sorted, entry, i) ==
    IF i > Len(sorted) THEN Append(sorted, entry)
    ELSE IF Exceeds(entry[2], sorted[i][2])
         THEN SubSeq(sorted, 1, i - 1) \o <<entry>> \o SubSeq(sorted, i, Len(sorted))
         ELSE InsertByCount(sorted, entry, i + 1)

RECURSIVE SortByCountFrom(_, _, _)
SortByCountFrom(sorted, entries, i) ==
    IF i > Len(entries) THEN sorted
    ELSE SortByCountFrom(InsertByCount(sorted, entries[i], 1), entries, i + 1)

DistributionOf(data, fields) ==
    LET found == CategoricalFields(data, fields)
        categoricalField == fields[CHOOSE i \in found : \A j \in found : i <= j]
        keys == [i \in 1..Len(data) |-> KeyOf(Get(data[i], categoricalField))]
        entryKeys == EntryKeysFrom(FirstSeen(keys, 1, <<>>), 1, <<>>, <<>>)
        entries == [i \in 1..Len(entryKeys) |->
                      <<entryKeys[i],
                        CountAfter(entryKeys[i],
                                   Cardinality({r \in 1..Len(keys) : keys[r] = entryKeys[i]}))>>]
        topEntries == SliceTo(SortByCountFrom(<<>>, entries, 1), TopCategories)
    IN  IF found # {} /\ categoricalField # ""
        THEN [labels |-> [i \in 1..Len(topEntries) |-> topEntries[i][1]],
              values |-> [i \in 1..Len(topEntries) |-> topEntries[i][2]]]
        ELSE [labels |-> PlaceholderLabels, values |-> PlaceholderValues]

\* A variant of the profile of no records that carries the placeholder.
EmptyProfile_placeholder ==
    [summary |-> [totalRecords |-> 0, uniqueValues |-> 0, missingValues |-> 0, dataTypes |-> <<>>],
     trends |-> [labels |-> <<>>, values |-> <<>>],
     distribution |-> [labels |-> PlaceholderLabels, values |-> PlaceholderValues],
     correlations |-> <<>>]

EmptyProfile ==
    [summary |-> [totalRecords |-> 0, uniqueValues |-> 0, missingValues |-> 0, dataTypes |-> <<>>],
     trends |-> [labels |-> <<>>, values |-> <<>>],
     distribution |-> [labels |-> <<>>, values |-> <<>>],
     correlations |-> <<>>]

\* analyzeFrontendData throws: Object.keys(data[0]) of a null first row, or
\* row[field] of a null row when the first row has a field
ProfilerThrows(ds) ==
    /\ ds.defined /\ ds.rows # <<>>
    /\ \/ ds.rows[1].isNull
       \/ Keys(ds.rows[1]) # <<>> /\ \E i \in 1..Len(ds.rows) : ds.rows[i].isNull

analyzeFrontendData(ds, random) ==
    LET data == IF ds.defined THEN ds.rows ELSE <<>>
        fields == Keys(data[1])
    IN  IF Len(data) = 0 THEN EmptyProfile
        ELSE [summary |-> SummaryFrom(data, fields, 1,
                            [totalRecords |-> Len(data), uniqueValues |-> 0,
                             missingValues |-> 0, dataTypes |-> <<>>]),
              trends |-> TrendOf(data, fields, random),
              distribution |-> DistributionOf(data, fields),
              correlations |-> <<>>]

AnalysisValues == {Null, Num(1), Str(<<>>), Str(<<"a">>), Str(<<"1">>)}
AnalysisDatasets == DatasetsOver(AnalysisValues)

\* outcomes of the ten Math.random() * 100, each in [0, 100)
RandomTrends == {[i \in 1..TrendLen |-> 0], [i \in 1..TrendLen |-> (37 * i) % 100]}

\* response.data of POST /analyze
RemoteAnalyses ==
    {EmptyProfile, [EmptyProfile EXCEPT !.summary.totalRecords = 7, !.summary.uniqueValues = 3]}

NoError == <<>>             \* error === null
FailedToAnalyze == <<"Failed to analyze dataset">>

AnalysisInit ==
    /\ aDataset \in AnalysisDatasets
    /\ analysisData = Null
    /\ loading = TRUE
    /\ error = NoError
    /\ aPc = "mounted"

\* useEffect(() => { fetchAnalysisData() }, [dataset]): up to the await
FetchAnalysisData ==
    /\ aPc = "mounted"
    /\ loading' = TRUE
    /\ error' = NoError
    /\ aPc' = "awaiting"
    /\ UNCHANGED <<aDataset, analysisData>>
    /\ UNCHANGED <<engineVars, chatVars, appVars, demoVars>>

\* the await resolves: setAnalysisData(response.data), finally setLoading(false)
AnalyzeResponse ==
    /\ aPc = "awaiting"
    /\ \E data \in RemoteAnalyses : analysisData' = data
    /\ loading' = FALSE
    /\ aPc' = "done"
    /\ UNCHANGED <<aDataset, error>>
    /\ UNCHANGED <<engineVars, chatVars, appVars, demoVars>>

\* A variant of the rejection that sets the error without running the profiler.
AnalyzeFailure_surfaced ==
    /\ aPc = "awaiting"
    /\ error' = FailedToAnalyze
    /\ loading' = FALSE
    /\ aPc' = "fallback"
    /\ UNCHANGED <<aDataset, analysisData>>
    /\ UNCHANGED <<engineVars, chatVars, appVars, demoVars>>

\* the await rejects: the inner catch runs the local profiler; if that throws,
\* the outer catch sets the error; finally setLoading(false)
AnalyzeFailure ==
    /\ aPc = "awaiting"
    /\ IF ProfilerThrows(aDataset)
       THEN error' = FailedToAnalyze /\ UNCHANGED analysisData
       ELSE /\ \E random \in RandomTrends : analysisData' = analyzeFrontendData(aDataset, random)
            /\ UNCHANGED error
    /\ loading' = FALSE
    /\ aPc' = "fallback"
    /\ UNCHANGED aDataset
    /\ UNCHANGED <<engineVars, chatVars, appVars, demoVars>>

AnalysisNext ==
    \/ FetchAnalysisData
    \/ AnalyzeResponse
    \/ AnalyzeFailure

---------------------------------------------------------------------------
(* SpecEngine: one call of a pure function of the engine on inputs drawn   *)
(* from bounded sets; `call` records the arguments and the result.         *)

NoCall == [fn |-> "none"]

Texts(n) == SeqsUpTo(Alphabet, n)

\* the corpora buildVocabulary is called on
Corpora == SeqsUpTo(Texts(MaxDocLen), MaxDocs)

\* the vocabularies the program hands to vectorize: results of buildVocabulary
Vocabularies == {buildVocabulary(c) : c \in Corpora}

\* term-count vectors of n entries
CountVectors(n) == [1..n -> 0..MaxCount]

\* the vocabularies, queries and topN values vectorSearch is called on
SearchVocabularies == {buildVocabulary(<<d>>) : d \in Texts(MaxTextLen)}
SearchQueries == Texts(MaxQueryLen)
TopNs == {NotGiven} \cup {Given(n) : n \in (0 - MaxDocs - 1)..(MaxDocs + 1)}

CallVectorize ==
    /\ call = NoCall
    /\ \E text \in Texts(MaxTextLen), vocab \in Vocabularies :
         call' = [fn |-> "vectorize", text |-> text, vocab |-> vocab,
                  result |-> vectorize(text, vocab)]
    /\ UNCHANGED <<chatVars, analysisVars, appVars, demoVars>>

CallChatVectorize ==
    /\ call = NoCall
    /\ \E text \in Texts(MaxTextLen), vocab \in Vocabularies :
         call' = [fn |-> "ChatInterface.vectorize", text |-> text, vocab |-> vocab,
                  result |-> ChatVectorize(text, vocab)]
    /\ UNCHANGED <<chatVars, analysisVars, appVars, demoVars>>

CallBuildVocabulary ==
    /\ call = NoCall
    /\ \E texts \in Corpora :
         call' = [fn |-> "buildVocabulary", texts |-> texts,
                  result |-> buildVocabulary(texts)]
    /\ UNCHANGED <<chatVars, analysisVars, appVars, demoVars>>

CallChatBuildVocabulary ==
    /\ call = NoCall
    /\ \E texts \in Corpora :
         call' = [fn |-> "ChatInterface.buildVocabulary", texts |-> texts,
                  result |-> ChatBuildVocabulary(texts)]
    /\ UNCHANGED <<chatVars, analysisVars, appVars, demoVars>>

CallCosineSimilarity ==
    /\ call = NoCall
    /\ \E n \in 0..MaxDim : \E a \in CountVectors(n), b \in CountVectors(n) :
         call' = [fn |-> "cosineSimilarity", a |-> a, b |-> b,
                  result |-> cosineSimilarity(a, b)]
    /\ UNCHANGED <<chatVars, analysisVars, appVars, demoVars>>

\* dataRows[i] is row i of the dataset, vecs[i] its vector
CallVectorSearch ==
    /\ call = NoCall
    /\ \E query \in SearchQueries, vocab \in SearchVocabularies, topN \in TopNs :
         \E vecs \in SeqsUpTo(CountVectors(Len(vocab)), MaxDocs) :
           LET dataRows == [i \in 1..Len(vecs) |-> i]
           IN  call' = [fn |-> "vectorSearch", query |-> query, vecs |-> vecs,
                        vocab |-> vocab, topN |-> topN,
                        result |-> vectorSearch(query, dataRows, vecs, vocab, topN)]
    /\ UNCHANGED <<chatVars, analysisVars, appVars, demoVars>>

EngineNext ==
    \/ CallVectorize
    \/ CallChatVectorize
    \/ CallBuildVocabulary
    \/ CallChatBuildVocabulary
    \/ CallCosineSimilarity
    \/ CallVectorSearch

---------------------------------------------------------------------------
(* App and DatasetGrid: the dataset list, the views, file upload *)

MaxUploads == 2

NoDataset == [source |-> "null", name |-> "", dataRows |-> [kind |-> "none", length |-> 0]]
NoAppError == "null"
FailedToLoad == "Failed to load datasets from backend. Showing example datasets."

ListedDataset(source, name) ==
    [source |-> source, name |-> name, dataRows |-> [kind |-> "none", length |-> 0]]

staticDatasets == <<ListedDataset("static", "example 1"), ListedDataset("static", "example 2")>>

\* res.data of GET /datasets: a list of datasets, an empty list, not a list
FetchedData ==
    {[isArray |-> TRUE, list |-> <<ListedDataset("backend", "collection 1")>>],
     [isArray |-> TRUE, list |-> <<>>],
     [isArray |-> FALSE, list |-> <<>>]}

\* JSON.parse of the texts of the model: it throws, or returns a value, of
\* which the handler reads the length only
JsonTexts ==
    {"{", "null", "5", "{\"id\": 1}", "\"text\"", "[]", "[1, 2]", "[{\"id\": 1}]",
     "[{\"id\": 1}, {\"id\": 2}]"}

JsonParse(text) ==
    CASE text = "{" -> [threw |-> TRUE, value |-> [kind |-> "none", length |-> 0]]
      [] text = "null" -> [threw |-> FALSE, value |-> [kind |-> "null", length |-> 0]]
      [] text = "5" -> [threw |-> FALSE, value |-> [kind |-> "number", length |-> 0]]
      [] text = "{\"id\": 1}" -> [threw |-> FALSE, value |-> [kind |-> "object", length |-> 0]]
      [] text = "\"text\"" -> [threw |-> FALSE, value |-> [kind |-> "string", length |-> 4]]
      [] text = "[]" -> [threw |-> FALSE, value |-> [kind |-> "array of objects", length |-> 0]]
      [] text = "[1, 2]" -> [threw |-> FALSE, value |-> [kind |-> "array of numbers", length |-> 2]]
      [] text = "[{\"id\": 1}]" ->
             [threw |-> FALSE, value |-> [kind |-> "array of objects", length |-> 1]]
      [] OTHER -> [threw |-> FALSE, value |-> [kind |-> "array of objects", length |-> 2]]

\* the texts of .csv files, as their lines; an empty line is <<>>
CsvTexts ==
    {<<>>, <<<<>>>>, <<<<"id", "text">>>>, <<<<"id", "text">>, <<"1", "a">>>>,
     <<<<"id", "text">>, <<>>, <<"1">>, <<"2", "b">>>>}

\* text.split('\n').filter(Boolean): the lines that are not empty
RECURSIVE NonEmptyLines(_)
NonEmptyLines(lines) ==
    IF lines = <<>> THEN <<>>
    ELSE IF lines[1] = <<>> THEN NonEmptyLines(Tail(lines))
    ELSE <<lines[1]>> \o NonEmptyLines(Tail(lines))

\* const [header, ...rows] = ...; header.split(',') throws when there is no
\* line; every other line becomes a record
CsvParse(lines) ==
    LET kept == NonEmptyLines(lines)
    IN  IF kept = <<>> THEN [threw |-> TRUE, value |-> [kind |-> "none", length |-> 0]]
        ELSE [threw |-> FALSE, value |-> [kind |-> "array of objects", length |-> Len(kept) - 1]]

\* a file: the end of its name, and its text as JSON text or as lines
Files ==
    {[extension |-> ".json", json |-> t, lines |-> <<>>] : t \in JsonTexts}
    \cup {[extension |-> ".csv", json |-> "", lines |-> t] : t \in CsvTexts}
    \cup {[extension |-> ".txt", json |-> "", lines |-> <<>>]}

\* the try block of reader.onload up to the test of dataRows.length; reading
\* the length of null throws
ParseFile(file) ==
    LET parsed == CASE file.extension = ".json" -> JsonParse(file.json)
                    [] file.extension = ".csv" -> CsvParse(file.lines)
                    [] OTHER -> [threw |-> FALSE, value |-> [kind |-> "array of objects", length |-> 0]]
    IN  IF ~parsed.threw /\ parsed.value.kind = "null"
        THEN [threw |-> TRUE, value |-> parsed.value]
        ELSE parsed

\* dataRows.length > 0: a number and an object have no length
HasRows(value) == value.kind \notin {"number", "object", "null", "none"} /\ value.length > 0

AppInit ==
    /\ datasets = staticDatasets
    /\ selectedDataset = NoDataset
    /\ viewMode = "datasets"
    /\ appLoading = TRUE
    /\ appError = NoAppError
    /\ reading = <<>>
    /\ alerts = 0

\* the DatasetGrid is rendered
GridShown == ~appLoading /\ appError = NoAppError /\ viewMode = "datasets"

\* fetchDatasets: the await resolves
FetchResolved ==
    /\ appLoading
    /\ \E data \in FetchedData :
           datasets' = IF data.isArray /\ Len(data.list) > 0 THEN data.list ELSE staticDatasets
    /\ appLoading' = FALSE
    /\ UNCHANGED <<selectedDataset, viewMode, appError, reading, alerts>>
    /\ UNCHANGED <<engineVars, chatVars, analysisVars, demoVars>>

\* fetchDatasets: the await rejects
FetchRejected ==
    /\ appLoading
    /\ datasets' = staticDatasets
    /\ appError' = FailedToLoad
    /\ appLoading' = FALSE
    /\ UNCHANGED <<selectedDataset, viewMode, reading, alerts>>
    /\ UNCHANGED <<engineVars, chatVars, analysisVars, demoVars>>

\* a card of the grid is clicked: handleSelectDataset(dataset, mode)
SelectDataset ==
    /\ GridShown
    /\ \E i \in 1..Len(datasets), mode \in {"chat", "analysis"} :
           /\ selectedDataset' = datasets[i]
           /\ viewMode' = mode
    /\ UNCHANGED <<datasets, appLoading, appError, reading, alerts>>
    /\ UNCHANGED <<engineVars, chatVars, analysisVars, demoVars>>

\* A variant of the back action that keeps the selection.
BackToDatasets_keeps_selection ==
    /\ viewMode \in {"chat", "analysis"} /\ selectedDataset # NoDataset
    /\ viewMode' = "datasets"
    /\ UNCHANGED <<selectedDataset, datasets, appLoading, appError, reading, alerts>>
    /\ UNCHANGED <<engineVars, chatVars, analysisVars, demoVars>>

\* onBack of the chat or of the dashboard: handleBackToDatasets
BackToDatasets ==
    /\ viewMode \in {"chat", "analysis"} /\ selectedDataset # NoDataset
    /\ selectedDataset' = NoDataset
    /\ viewMode' = "datasets"
    /\ UNCHANGED <<datasets, appLoading, appError, reading, alerts>>
    /\ UNCHANGED <<engineVars, chatVars, analysisVars, demoVars>>

\* onAnalyze of the chat: setViewMode('analysis')
Analyze ==
    /\ viewMode = "chat" /\ selectedDataset # NoDataset
    /\ viewMode' = "analysis"
    /\ UNCHANGED <<datasets, selectedDataset, appLoading, appError, reading, alerts>>
    /\ UNCHANGED <<engineVars, chatVars, analysisVars, demoVars>>

\* the files chosen so far that are being read or have had an effect
Uploads == Len(reading) + alerts + Cardinality({i \in 1..Len(datasets) : datasets[i].source = "User Upload"})

\* A variant of the file input that is there before the list has loaded.
ChooseFile_while_loading ==
    /\ appError = NoAppError /\ viewMode = "datasets"
    /\ Uploads < MaxUploads
    /\ \E file \in Files : reading' = Append(reading, file)
    /\ UNCHANGED <<datasets, selectedDataset, viewMode, appLoading, appError, alerts>>
    /\ UNCHANGED <<engineVars, chatVars, analysisVars, demoVars>>

\* onChange of the grid's file input: handleFileUpload up to reader.readAsText
ChooseFile ==
    /\ GridShown
    /\ Uploads < MaxUploads
    /\ \E file \in Files : reading' = Append(reading, file)
    /\ UNCHANGED <<datasets, selectedDataset, viewMode, appLoading, appError, alerts>>
    /\ UNCHANGED <<engineVars, chatVars, analysisVars, demoVars>>

\* reader.onload for the file at position i: parse, then dispatch addDataset,
\* which App's handleAddDataset receives at once, or alert
FileLoaded(i) ==
    /\ i \in 1..Len(reading)
    /\ LET file == reading[i]
           parsed == ParseFile(file)
       IN  /\ alerts' = IF parsed.threw THEN alerts + 1 ELSE alerts
           /\ datasets' = IF ~parsed.threw /\ HasRows(parsed.value)
                          THEN Append(datasets, [source |-> "User Upload", name |-> file.extension,
                                                 dataRows |-> parsed.value])
                          ELSE datasets
    /\ reading' = SubSeq(reading, 1, i - 1) \o SubSeq(reading, i + 1, Len(reading))
    /\ UNCHANGED <<selectedDataset, viewMode, appLoading, appError>>
    /\ UNCHANGED <<engineVars, chatVars, analysisVars, demoVars>>

AppNext ==
    \/ FetchResolved
    \/ FetchRejected
    \/ SelectDataset
    \/ BackToDatasets
    \/ Analyze
    \/ ChooseFile
    \/ \E i \in 1..MaxUploads : FileLoaded(i)

---------------------------------------------------------------------------
(* VectorSearchDemo: handleLoadDataset *)

MaxRuns == 2

\* DATASETS
DemoKeys == {"olympics", "gdelt", "unsdg"}

DemoInit ==
    /\ loadMsg = ""
    /\ demoRuns = <<>>
    /\ requests = <<>>

Request(url, key, run) == [url |-> url, dataset |-> key, run |-> run, outcome |-> "pending"]

\* a button of the demo is clicked: handleLoadDataset(dataset) up to its
\* first await; the buttons are never disabled
HandleLoadDataset ==
    /\ Len(demoRuns) < MaxRuns
    /\ \E key \in DemoKeys :
           /\ requests' = Append(requests, Request("create-index", key, Len(demoRuns) + 1))
           /\ demoRuns' = Append(demoRuns, [dataset |-> key, pc |-> "create-index",
                                            request |-> Len(requests) + 1])
    /\ loadMsg' = "Creating vector index..."
    /\ UNCHANGED <<engineVars, chatVars, analysisVars, appVars>>

\* fetch of create-index resolves, with whatever status the response has: the
\* handler goes on to issue the load request
CreateIndexAnswered(r) ==
    /\ r \in 1..Len(demoRuns) /\ demoRuns[r].pc = "create-index"
    /\ \E outcome \in {"2xx", "4xx or 5xx"} :
           requests' = Append([requests EXCEPT ![demoRuns[r].request].outcome = outcome],
                              Request("load", demoRuns[r].dataset, r))
    /\ demoRuns' = [demoRuns EXCEPT ![r].pc = "load", ![r].request = Len(requests) + 1]
    /\ loadMsg' = "Loading dataset..."
    /\ UNCHANGED <<engineVars, chatVars, analysisVars, appVars>>

\* fetch of load resolves: res.json() gives data with a message, data without
\* one, or rejects when the body is not JSON
LoadAnswered(r) ==
    /\ r \in 1..Len(demoRuns) /\ demoRuns[r].pc = "load"
    /\ \E outcome \in {"2xx", "4xx or 5xx"} :
           requests' = [requests EXCEPT ![demoRuns[r].request].outcome = outcome]
    /\ demoRuns' = [demoRuns EXCEPT ![r].pc = "done"]
    /\ loadMsg' \in {"data.message", "Loaded!", "Failed to load dataset or create index."}
    /\ UNCHANGED <<engineVars, chatVars, analysisVars, appVars>>

\* the fetch under way rejects (network error): the catch block
RequestFailed(r) ==
    /\ r \in 1..Len(demoRuns) /\ demoRuns[r].pc \in {"create-index", "load"}
    /\ requests' = [requests EXCEPT ![demoRuns[r].request].outcome = "rejected"]
    /\ demoRuns' = [demoRuns EXCEPT ![r].pc = "done"]
    /\ loadMsg' = "Failed to load dataset or create index."
    /\ UNCHANGED <<engineVars, chatVars, analysisVars, appVars>>

DemoNext ==
    \/ HandleLoadDataset
    \/ \E r \in 1..MaxRuns : CreateIndexAnswered(r)
    \/ \E r \in 1..MaxRuns : LoadAnswered(r)
    \/ \E r \in 1..MaxRuns : RequestFailed(r)

---------------------------------------------------------------------------
(* The local profiler called on its own *)

MaxRepeat == 5
MaxRamp == 9

ProfilerValues == AnalysisValues \cup {Str(<<"constructor">>)}

\* records with no field, with the field id, with the fields id and text
ProfilerRows ==
    {ObjectRow(<<>>)}
    \cup {ObjectRow(<<<<"id", v>>>>) : v \in ProfilerValues}
    \cup {ObjectRow(<<<<"id", v>>, <<"text", w>>>>) : v \in ProfilerValues, w \in ProfilerValues}

RepeatCounts == {0, 1, MaxRepeat - 1, MaxRepeat}

\* m records with the ids 1..m
Ramp(m) == [i \in 1..m |-> ObjectRow(<<<<"id", Num(i)>>>>)]
Repeat(row, k) == [i \in 1..k |-> row]

\* no list; at most one record followed by copies of one record; the ids
\* 1..MaxRamp followed by more copies of one record than there are ids; more
\* copies of a one-field record than the trend shows, followed by another
ProfilerDatasets ==
    {NoRows}
    \cup {DataRows(first \o Repeat(row, k)) :
            first \in {<<>>} \cup {<<r>> : r \in ProfilerRows \cup {NullRow}},
            row \in ProfilerRows \cup {NullRow},
            k \in RepeatCounts}
    \cup {DataRows(Ramp(MaxRamp) \o Repeat(row, MaxRamp + 1)) : row \in ProfilerRows}
    \cup {DataRows(Repeat(ObjectRow(<<<<"id", v>>>>), MaxRamp + 2) \o <<ObjectRow(<<<<"id", w>>>>)>>) :
            v \in ProfilerValues, w \in ProfilerValues}

NoResult == <<>>

CallAnalyzeFrontendData ==
    /\ call = NoCall
    /\ \E ds \in ProfilerDatasets, random \in RandomTrends :
         call' = [fn |-> "analyzeFrontendData", dataset |-> ds, random |-> random,
                  threw |-> ProfilerThrows(ds),
                  result |-> IF ProfilerThrows(ds) THEN NoResult
                             ELSE analyzeFrontendData(ds, random)]
    /\ UNCHANGED <<chatVars, analysisVars, appVars, demoVars>>

ProfilerNext == CallAnalyzeFrontendData

---------------------------------------------------------------------------
(* Specifications: each component on its own, the others at rest *)

EngineIdle == call = NoCall

ChatIdle ==
    /\ dataset = NoRows
    /\ vocabulary = <<>>
    /\ vectors = <<>>
    /\ vectorized = FALSE
    /\ vectorField = Null
    /\ messages = <<Greeting>>
    /\ inputValue = <<>>
    /\ isTyping = FALSE
    /\ pending = <<>>
    /\ effectDone = FALSE
    /\ crashed = FALSE
    /\ loadingDataset = NotLoading
    /\ responseData = NoResponse

AnalysisIdle ==
    /\ aDataset = NoRows
    /\ analysisData = Null
    /\ loading = TRUE
    /\ error = NoError
    /\ aPc = "mounted"

\* ChatInterface
Init == EngineIdle /\ ChatInit /\ AnalysisIdle /\ AppInit /\ DemoInit
Next == ChatNext
Spec == Init /\ [][Next]_vars

\* AnalysisDashboard
InitAnalysis == EngineIdle /\ ChatIdle /\ AnalysisInit /\ AppInit /\ DemoInit
SpecAnalysis == InitAnalysis /\ [][AnalysisNext]_vars

\* the pure functions of the engine
InitEngine == EngineIdle /\ ChatIdle /\ AnalysisIdle /\ AppInit /\ DemoInit
SpecEngine == InitEngine /\ [][EngineNext]_vars

\* the local profiler as a pure function
InitProfiler == EngineIdle /\ ChatIdle /\ AnalysisIdle /\ AppInit /\ DemoInit
SpecProfiler == InitProfiler /\ [][ProfilerNext]_vars

\* App with its DatasetGrid
InitApp == EngineIdle /\ ChatIdle /\ AnalysisIdle /\ AppInit /\ DemoInit
SpecApp == InitApp /\ [][AppNext]_vars

\* VectorSearchDemo
InitDemo == EngineIdle /\ ChatIdle /\ AnalysisIdle /\ AppInit /\ DemoInit
SpecDemo == InitDemo /\ [][DemoNext]_vars

---------------------------------------------------------------------------
(* The Tokenizer of the specification, stated independently of split: the   *)
(* tokens of a text are the maximal runs of word characters of the          *)
(* lower-cased text.                                                        *)

TokenSpans(text) ==
    LET low == ToLowerCase(text)
    IN  {sp \in (1..Len(low)) \X (1..Len(low)) :
            /\ sp[1] <= sp[2]
            /\ \A k \in sp[1]..sp[2] : IsWordChar(low[k])
            /\ sp[1] = 1 \/ ~IsWordChar(low[sp[1] - 1])
            /\ sp[2] = Len(low) \/ ~IsWordChar(low[sp[2] + 1])}

TokensOf(text) == {SubSeq(ToLowerCase(text), sp[1], sp[2]) : sp \in TokenSpans(text)}

Occurrences(term, text) ==
    Cardinality({sp \in TokenSpans(text) : SubSeq(ToLowerCase(text), sp[1], sp[2]) = term})

IsZeroVector(v) == \A i \in 1..Len(v) : v[i] = 0

Min(m, n) == IF m < n THEN m ELSE n

\* the topN a vectorSearch call asks for
RequestedTopN(c) == IF c.topN = NotGiven THEN DefaultTopN ELSE c.topN[1]

---------------------------------------------------------------------------
(* Claims *)

\* C1: when the remote query call of handleSendMessage fails, the message the
\* call appends is not the error message (it is built by the local ranker).
C1_FailureFallsBackToLocalRanker ==
    [][QueryFailure => messages'[Len(messages')].content # ErrorContent]_vars

\* C2: once the remote analysis call has failed and the local profiler has
\* returned, analysisData is the profiler's result over the dataset's rows,
\* error is null and loading is false; loading is false after every outcome.
C2_FallbackToLocalProfiler ==
    /\ aPc = "fallback" /\ ~ProfilerThrows(aDataset) =>
         /\ \E random \in RandomTrends : analysisData = analyzeFrontendData(aDataset, random)
         /\ error = NoError
         /\ loading = FALSE
    /\ aPc \in {"fallback", "done"} => loading = FALSE

C2_Witness ==
    /\ aPc = "fallback"
    /\ ~ProfilerThrows(aDataset)
    /\ Len(aDataset.rows) = MaxRows
    /\ analysisData.summary.totalRecords = MaxRows

\* C3: the result of vectorSearch is in descending order of score, and two
\* results of equal score are in the order of their indices in the input.
C3_SortedDescendingStable ==
    call.fn = "vectorSearch" =>
        \A i, j \in 1..Len(call.result) :
            i < j => /\ FCmp(call.result[i].score, call.result[j].score) >= 0
                     /\ call.result[i].score = call.result[j].score
                          => call.result[i].row < call.result[j].row

C3_Witness ==
    /\ call.fn = "vectorSearch"
    /\ Len(call.result) = 2
    /\ call.result[1].score = call.result[2].score
    /\ call.result[1].score # FZero
    /\ call.vecs[1] # call.vecs[2]

\* C4 as stated: for every topN the result of vectorSearch has exactly
\* min(topN, len(vectors)) entries.
C4_LengthIsMin ==
    call.fn = "vectorSearch" =>
        Len(call.result) = Min(RequestedTopN(call), Len(call.vecs))

\* C4 amended: for every topN >= 0 (and for the default topN) the result of
\* vectorSearch has exactly min(topN, len(vectors)) entries; no vectors, no results.
C4_LengthIsMinForNonNegativeTopN ==
    call.fn = "vectorSearch" /\ RequestedTopN(call) >= 0 =>
        /\ Len(call.result) = Min(RequestedTopN(call), Len(call.vecs))
        /\ call.vecs = <<>> => call.result = <<>>

C4_Witness ==
    /\ call.fn = "vectorSearch"
    /\ call.topN = Given(1)
    /\ Len(call.vecs) = 2
    /\ Len(call.result) = 1

\* C5: for every topN that is zero or negative, vectorSearch returns an empty result.
C5_NonPositiveTopNIsEmpty ==
    call.fn = "vectorSearch" /\ RequestedTopN(call) <= 0 => call.result = <<>>

\* C6: cosineSimilarity returns exactly 0 when a or b is all zeros, and a query
\* that shares no token with the vocabulary scores 0 against every document.
C6_ZeroNormScoresZero ==
    /\ call.fn = "cosineSimilarity" /\ (IsZeroVector(call.a) \/ IsZeroVector(call.b))
         => call.result = FZero
    /\ call.fn = "vectorSearch" /\ TokensOf(call.query) \cap Range(call.vocab) = {}
         => \A i \in 1..Len(call.result) : call.result[i].score = FZero

C6_Witness ==
    /\ call.fn = "cosineSimilarity"
    /\ IsZeroVector(call.a)
    /\ ~IsZeroVector(call.b)
    /\ call.result = FZero

\* C7: cosineSimilarity(v, v) equals 1 for every non-zero vector v, and every
\* score lies in [0, 1].
C7_SelfSimilarityIsOneScoreInUnitInterval ==
    call.fn = "cosineSimilarity" =>
        /\ call.a = call.b /\ ~IsZeroVector(call.a) => call.result = FOne
        /\ FCmp(call.result, FZero) >= 0
        /\ FCmp(call.result, FOne) <= 0

\* C8: vectorize(text, V) has exactly len(V) entries, in the exported
\* function and in ChatInterface's copy.
C8_VectorHasVocabularyLength ==
    call.fn \in {"vectorize", "ChatInterface.vectorize"} => Len(call.result) = Len(call.vocab)

C8_Witness ==
    /\ call.fn = "vectorize"
    /\ Len(call.vocab) = 2
    /\ Cardinality(TokenSpans(call.text)) = 1

\* C9: entry i of vectorize(text, V) is the number of occurrences of V[i]
\* among the tokens of text.
C9_EntriesAreTokenCounts ==
    call.fn = "vectorize" =>
        /\ DOMAIN call.result = 1..Len(call.vocab)
        /\ \A i \in 1..Len(call.vocab) : call.result[i] = Occurrences(call.vocab[i], call.text)

C9_Witness ==
    /\ call.fn = "vectorize"
    /\ \E i \in 1..Len(call.result) : call.result[i] = 2

\* C10: buildVocabulary (the exported function and ChatInterface's copy)
\* returns non-empty lower-case tokens, none twice, and exactly the tokens
\* of the texts.
C10_VocabularyIsTheTokenSet ==
    call.fn \in {"buildVocabulary", "ChatInterface.buildVocabulary"} =>
        /\ \A i \in 1..Len(call.result) :
               call.result[i] # <<>> /\ ToLowerCase(call.result[i]) = call.result[i]
        /\ \A i, j \in 1..Len(call.result) : call.result[i] = call.result[j] => i = j
        /\ Range(call.result) = UNION {TokensOf(call.texts[d]) : d \in 1..Len(call.texts)}

---------------------------------------------------------------------------
(* Claims on the vectorization of a dataset *)

HasStringField(row) == \E i \in 1..Len(row.entries) : row.entries[i][2].t = "string"

\* the first key, in the row's key order, whose value is a string
FirstStringKey(row) ==
    LET first == CHOOSE i \in 1..Len(row.entries) :
                     /\ row.entries[i][2].t = "string"
                     /\ \A j \in 1..(i - 1) : row.entries[j][2].t # "string"
    IN  row.entries[first][1]

NoNullRow(ds) == \A i \in 1..Len(ds.rows) : ~ds.rows[i].isNull

\* a dataset of records, not empty
IsRecordList(ds) == ds.defined /\ ds.rows # <<>> /\ NoNullRow(ds)

\* the records that hold a string in the text field
WithTextField(ds) ==
    {i \in 1..Len(ds.rows) : Get(ds.rows[i], FirstStringKey(ds.rows[1])).t = "string"}

\* vocabulary, vectors and text field are the ones built from the records
\* of the current dataset, every record holding a text
DerivedFromDataset ==
    /\ IsRecordList(dataset)
    /\ HasStringField(dataset.rows[1])
    /\ WithTextField(dataset) = 1..Len(dataset.rows)
    /\ LET field == FirstStringKey(dataset.rows[1])
           texts == [i \in 1..Len(dataset.rows) |-> Get(dataset.rows[i], field).s]
       IN  /\ vectorField = Str(<<field>>)
           /\ vocabulary = ChatBuildVocabulary(texts)
           /\ vectors = [i \in 1..Len(texts) |-> ChatVectorize(texts[i], vocabulary)]

C12_RevectorizedOnDatasetChange ==
    [][VectorizeEffect =>
          /\ vectorized /\ DerivedFromDataset =>
                 UNCHANGED <<vocabulary, vectors, vectorField, vectorized>>
          /\ IsRecordList(dataset) /\ HasStringField(dataset.rows[1])
               /\ WithTextField(dataset) = 1..Len(dataset.rows) => DerivedFromDataset']_vars

\* C13: whenever vectorized is true and the vectorization step has run for
\* the current dataset, vocabulary and vectors are the ones derived from the
\* records of the current dataset.
C13_VectorsBelongToCurrentDataset ==
    vectorized /\ effectDone /\ ~crashed => DerivedFromDataset

\* C14: vectorizing a dataset in which some records lack the text field, or
\* hold a non-string value there, completes and yields one vector for each
\* record that has the text field.
C14_RecordsWithoutTextAreSkipped ==
    [][VectorizeEffect /\ ~vectorized /\ IsRecordList(dataset)
         /\ HasStringField(dataset.rows[1]) =>
          /\ ~crashed'
          /\ vectorized'
          /\ Len(vectors') = Cardinality(WithTextField(dataset))]_vars

---------------------------------------------------------------------------
(* Claims on the local profiler *)

ProfilerCalled == call.fn = "analyzeFrontendData"

\* the profiler was called on a non-empty list of records
ProfiledRecords == ProfilerCalled /\ IsRecordList(call.dataset)

\* a value that is null, absent, or the empty string
IsMissing(v) == v.t \in {"null", "undefined"} \/ (v.t = "string" /\ v.s = <<>>)

Present(rows, field) == {i \in 1..Len(rows) : ~IsMissing(Get(rows[i], field))}

\* the non-missing values of the field that parse as a number
Parsing(rows, field) == {i \in Present(rows, field) : ~ToNumber(Get(rows[i], field)).nan}

DistinctPresent(rows, field) == {Get(rows[i], field) : i \in Present(rows, field)}

DistinctValues(rows, field) == {Get(rows[i], field) : i \in 1..Len(rows)}

RECURSIVE SumOver(_, _)
SumOver(counts, i) == IF i = 0 THEN 0 ELSE counts[i] + SumOver(counts, i - 1)

HasEntry(dataTypes, field) == \E e \in 1..Len(dataTypes) : dataTypes[e][1] = field

EntryOf(dataTypes, field) == dataTypes[CHOOSE e \in 1..Len(dataTypes) : dataTypes[e][1] = field][2]

\* C15: profiling an empty or absent record list returns zero counts, empty
\* dataTypes, an empty trend, an empty distribution and no correlations, and
\* neither the random trend nor the placeholder distribution.
C15_EmptyListGivesZeroProfile ==
    ProfilerCalled /\ (~call.dataset.defined \/ call.dataset.rows = <<>>) =>
        /\ ~call.threw
        /\ call.result.summary.totalRecords = 0
        /\ call.result.summary.uniqueValues = 0
        /\ call.result.summary.missingValues = 0
        /\ call.result.summary.dataTypes = <<>>
        /\ call.result.trends.labels = <<>>
        /\ call.result.trends.values = <<>>
        /\ call.result.distribution.labels = <<>>
        /\ call.result.distribution.values = <<>>
        /\ call.result.correlations = <<>>

C15_Witness ==
    /\ ProfilerCalled
    /\ call.dataset = DataRows(<<>>)
    /\ call.random[1] # 0
    /\ call.result.distribution.values = <<>>

\* C16: for a non-empty record list missingValues is the sum, over the fields
\* of the first record, of the number of records whose value for the field is
\* null, absent or the empty string.
C16_MissingValuesIsTheSumOverFields ==
    ProfiledRecords =>
        LET rows == call.dataset.rows
            fields == Keys(rows[1])
            missing == [f \in 1..Len(fields) |-> Len(rows) - Cardinality(Present(rows, fields[f]))]
        IN  /\ ~call.threw
            /\ call.result.summary.missingValues = SumOver(missing, Len(fields))

C16_Witness ==
    /\ ProfiledRecords
    /\ Len(Keys(call.dataset.rows[1])) = 2
    /\ Present(call.dataset.rows, "id") = {1}
    /\ Cardinality(Present(call.dataset.rows, "text")) = Len(call.dataset.rows) - 1
    /\ \E i \in 1..Len(call.dataset.rows) : Get(call.dataset.rows[i], "id") = Str(<<>>)
    /\ call.result.summary.missingValues = Len(call.dataset.rows)

\* C17: a field of the first record has an entry in dataTypes exactly when at
\* least 80% of its non-missing values parse as a number (4 of 5 included);
\* uniqueValues is the number of distinct non-missing values summed over the
\* other fields.
C17_NumericFromEightyPercent ==
    ProfiledRecords =>
        LET rows == call.dataset.rows
            fields == Keys(rows[1])
            numeric == {f \in 1..Len(fields) :
                           5 * Cardinality(Parsing(rows, fields[f]))
                               >= 4 * Cardinality(Present(rows, fields[f]))}
            distinct == [f \in 1..Len(fields) |->
                           IF f \in numeric THEN 0
                           ELSE Cardinality(DistinctPresent(rows, fields[f]))]
        IN  /\ \A f \in 1..Len(fields) :
                   Present(rows, fields[f]) # {} =>
                       (HasEntry(call.result.summary.dataTypes, fields[f]) <=> f \in numeric)
            /\ (\A f \in 1..Len(fields) : Present(rows, fields[f]) # {}) =>
                   call.result.summary.uniqueValues = SumOver(distinct, Len(fields))

\* C18: for every field with an entry in dataTypes the entry is the number of
\* the field's non-missing values, also when some of them do not parse.
C18_DataTypesHoldsNonMissingCount ==
    ProfiledRecords =>
        LET rows == call.dataset.rows
            fields == Keys(rows[1])
        IN  \A f \in 1..Len(fields) :
                HasEntry(call.result.summary.dataTypes, fields[f]) =>
                    EntryOf(call.result.summary.dataTypes, fields[f])
                        = Cardinality(Present(rows, fields[f]))

\* C19: the distribution has at most 8 entries, as many labels as values,
\* and values in non-increasing order, computed or placeholder.
C19_DistributionIsShortAndSorted ==
    ProfilerCalled /\ ~call.threw =>
        LET labels == call.result.distribution.labels
            values == call.result.distribution.values
        IN  /\ Len(labels) <= 8
            /\ Len(labels) = Len(values)
            /\ \A i \in 1..Len(values) : values[i].t = "number"
            /\ \A i \in 1..(Len(values) - 1) : values[i].n >= values[i + 1].n

\* C20: the distribution is over the first field of the first record whose
\* number d of distinct values satisfies 1 < d < 0.5 * totalRecords, and holds
\* the occurrence counts of that field's values, the 8 largest; with no such
\* field it is exactly Category A, B, C with 30, 45, 25.
C20_DistributionOfFirstCategoricalField ==
    ProfiledRecords =>
        LET rows == call.dataset.rows
            fields == Keys(rows[1])
            labels == call.result.distribution.labels
            values == call.result.distribution.values
            qualifying == {f \in 1..Len(fields) :
                              LET d == Cardinality(DistinctValues(rows, fields[f]))
                              IN  1 < d /\ 2 * d < Len(rows)}
            field == fields[CHOOSE f \in qualifying : \A g \in qualifying : f <= g]
            Occurs(v) == Cardinality({i \in 1..Len(rows) : Get(rows[i], field) = v})
        IN  IF qualifying = {}
            THEN /\ labels = <<<<"Category A">>, <<"Category B">>, <<"Category C">>>>
                 /\ values = <<Num(30), Num(45), Num(25)>>
                 /\ Len(rows) < 5 => qualifying = {}
            ELSE /\ Len(labels) = Min(8, Cardinality(DistinctValues(rows, field)))
                 /\ Len(values) = Len(labels)
                 /\ \A i \in 1..Len(labels) :
                        \E v \in DistinctValues(rows, field) :
                            /\ KeyOf(v) = labels[i]
                            /\ values[i] = Num(Occurs(v))
                            /\ \A j \in 1..Len(labels) : j # i => labels[j] # labels[i]
                 /\ \A v \in DistinctValues(rows, field) :
                        (\A i \in 1..Len(labels) : labels[i] # KeyOf(v)) =>
                            \A i \in 1..Len(values) : values[i].n >= Occurs(v)

\* the first records, at most 10
FirstTen(rows) == SubSeq(rows, 1, Min(10, Len(rows)))

\* C21: for a non-empty record list in which no value of any field parses as
\* a number the trend has the 10 labels Data Point 1 .. Data Point 10 and 10
\* values in [0,100), however many records there are; in every case the
\* trend has at most 10 labels and at most 10 values.
C21_TrendFallbackHasTenPoints ==
    /\ ProfilerCalled /\ ~call.threw =>
           /\ Len(call.result.trends.labels) <= 10
           /\ Len(call.result.trends.values) <= 10
    /\ ProfiledRecords =>
           LET rows == call.dataset.rows
               fields == Keys(rows[1])
           IN  (\A f \in 1..Len(fields) : \A i \in 1..Len(rows) :
                    ToNumber(Get(rows[i], fields[f])).nan) =>
                   /\ call.result.trends.labels = [i \in 1..10 |-> <<"Data Point", i>>]
                   /\ Len(call.result.trends.values) = 10
                   /\ \A i \in 1..10 : /\ call.result.trends.values[i] >= 0
                                       /\ call.result.trends.values[i] < 100

\* C22: the trend field is the first field of the first record for which
\* some record among the first 10 holds a non-missing value that parses as a
\* number, and trend value i is the number that field holds in record i.
C22_TrendOfFirstNumericField ==
    ProfiledRecords =>
        LET rows == FirstTen(call.dataset.rows)
            fields == Keys(rows[1])
            numeric == {f \in 1..Len(fields) : Parsing(rows, fields[f]) # {}}
            field == fields[CHOOSE f \in numeric : \A g \in numeric : f <= g]
        IN  numeric # {} =>
                /\ Len(call.result.trends.values) = Len(rows)
                /\ \A i \in Parsing(rows, field) :
                       call.result.trends.values[i] = ToNumber(Get(rows[i], field)).n

\* C23: the local profiler returns a profile for every record list, also
\* when a record is null, lacks fields or holds unparsable values, so the
\* dashboard never ends with the error Failed to analyze dataset.
C23_ProfilerNeverRaises ==
    /\ error # FailedToAnalyze
    /\ aPc = "fallback" => analysisData # Null

---------------------------------------------------------------------------
(* Claims on the messages of ChatInterface *)

LastMessage(msgs) == msgs[Len(msgs)]

\* the step appends one message to the list
AppendsMessage == Len(messages') = Len(messages) + 1 /\ SubSeq(messages', 1, Len(messages)) = messages

\* C25: on a successful response the assistant message is ai_response when
\* the response has that field; else, for an array, it is built from the text
\* fields of the first entries, at most 3, in order; for any other response
\* and for the empty array it is No relevant results found.
C25_ReplyFollowsResponseShape ==
    [][QueryResponse =>
          LET data == responseData'
              reply == LastMessage(messages')
          IN  /\ AppendsMessage /\ ~reply.isUser
              /\ data.kind = "ai" => reply.content = data.ai_response
              /\ data.kind = "array" /\ data.results # <<>> =>
                     reply.content = <<"Top results:">>
                                       \o SubSeq(data.results, 1, Min(3, Len(data.results)))
              /\ data.kind \in {"object", "null"} \/ (data.kind = "array" /\ data.results = <<>>) =>
                     reply.content = <<"No relevant results found.">>]_vars

\* C29: a send of a non-blank input appends exactly one user message and
\* sets isTyping; when the call settles exactly one assistant message is
\* appended after it and isTyping is reset; isTyping holds all the while, no
\* other message comes in between, and a blank input sends nothing.
C29_OneUserThenOneAssistantMessage ==
    /\ [](pending # <<>> =>
             /\ isTyping /\ Len(pending) = 1
             /\ LastMessage(messages).isUser
             /\ LastMessage(messages).content = pending[1].query)
    /\ [](LastMessage(messages).isUser => pending # <<>>)
    /\ [][messages' # messages => AppendsMessage]_vars
    /\ [][AppendsMessage /\ LastMessage(messages').isUser =>
             /\ Trim(inputValue) # <<>> /\ ~isTyping
             /\ LastMessage(messages').content = inputValue
             /\ isTyping' /\ pending = <<>> /\ pending' # <<>>]_vars
    /\ [][pending # <<>> /\ pending' # pending =>
             /\ pending' = <<>>
             /\ AppendsMessage /\ ~LastMessage(messages').isUser
             /\ ~isTyping']_vars
    /\ [][pending # <<>> /\ (messages' # messages \/ isTyping' # isTyping) => pending' = <<>>]_vars

C29_Witness ==
    /\ Len(messages) = 4
    /\ ~messages[2].isUser /\ messages[3].isUser /\ ~messages[4].isUser
    /\ messages[3].content = <<"a">>
    /\ responseData.kind = "array" /\ Len(responseData.results) = 4
    /\ messages[4].content = <<"Top results:", "r1", "r2", "r3">>
    /\ ~isTyping /\ pending = <<>>

---------------------------------------------------------------------------
(* Claims on App and DatasetGrid *)

\* the file holds a sequence of records: a JSON array of one or more
\* objects, or CSV lines, a header and one or more lines after it
IsRecordFile(file) ==
    \/ file.extension = ".json" /\ file.json \in {"[{\"id\": 1}]", "[{\"id\": 1}, {\"id\": 2}]"}
    \/ file.extension = ".csv"
         /\ Cardinality({l \in 1..Len(file.lines) : file.lines[l] # <<>>}) >= 2

UploadedDatasets(list) == {i \in 1..Len(list) : list[i].source = "User Upload"}

\* C24: when the content of an uploaded file is not a sequence of records,
\* handleFileUpload reports a parse failure and dispatches no addDataset
\* event: the dataset list of App is unchanged.
C24_MalformedFileIsReportedAndNotAdded ==
    [][\A i \in 1..Len(reading) :
          FileLoaded(i) /\ ~IsRecordFile(reading[i]) =>
              alerts' = alerts + 1 /\ datasets' = datasets]_vars

\* C26: when the request for the dataset list fails, the list is the static
\* example datasets and the dataset grid is displayed, with the notice.
C26_ExamplesShownAfterFailedFetch ==
    [][FetchRejected =>
          /\ datasets' = staticDatasets
          /\ appError' = FailedToLoad
          /\ GridShown']_vars

\* C28: viewMode is chat or analysis exactly when a dataset is selected; the
\* selection is one of the listed datasets, stays the same from chat to
\* analysis, and is dropped only by going back to the datasets view.
C28_ViewModeAgreesWithSelection ==
    /\ [](viewMode \in {"chat", "analysis"} <=> selectedDataset # NoDataset)
    /\ [](viewMode \in {"datasets", "chat", "analysis"})
    /\ [][selectedDataset' # selectedDataset =>
             \/ /\ selectedDataset = NoDataset /\ viewMode = "datasets"
                /\ \E i \in 1..Len(datasets) : selectedDataset' = datasets[i]
             \/ selectedDataset' = NoDataset /\ viewMode' = "datasets"]_vars
    /\ [][viewMode = "chat" /\ viewMode' = "analysis" => selectedDataset' = selectedDataset]_vars

C28_Witness ==
    /\ viewMode = "analysis"
    /\ selectedDataset.source = "User Upload"
    /\ selectedDataset.dataRows.length = 2
    /\ Len(datasets) = 2

\* C30: a dataset added by an upload stays in the dataset list in every
\* later state; files are chosen, and addDataset events arrive, only after
\* the request for the dataset list has settled.
C30_UploadedDatasetsStay ==
    /\ [][\A i \in UploadedDatasets(datasets) : i <= Len(datasets') /\ datasets'[i] = datasets[i]]_vars
    /\ [](appLoading => reading = <<>> /\ UploadedDatasets(datasets) = {})
    /\ [][appLoading' => appLoading]_vars

C30_Witness ==
    /\ datasets[1].source = "backend"
    /\ Cardinality(UploadedDatasets(datasets)) = MaxUploads
    /\ datasets[Len(datasets)].dataRows.kind = "array of objects"
    /\ viewMode = "chat"

---------------------------------------------------------------------------
(* Claims on VectorSearchDemo *)

\* C27: the load request for a dataset is issued only after the create-index
\* request of the same call for that dataset has completed, and only when
\* index creation succeeded.
C27_LoadOnlyAfterIndexCreated ==
    \A k \in 1..Len(requests) :
        requests[k].url = "load" =>
            \E j \in 1..(k - 1) :
                /\ requests[j].url = "create-index"
                /\ requests[j].run = requests[k].run
                /\ requests[j].dataset = requests[k].dataset
                /\ requests[j].outcome = "2xx"

====
